---------------------------- MODULE Spec2Model ----------------------------
(***************************************************************************)
(* Model of the attendance tracker in src/app.py: the shift-time engine    *)
(* (get_shift_date, format_time, parse_time, calculate_times) and the      *)
(* record table `df` with the user-portal and admin operations on it.      *)
(*                                                                         *)
(* Representation                                                          *)
(*   - an instant (a datetime with zero seconds) is the number of minutes  *)
(*     since 00:00 of day 0; a date is a day number;                       *)
(*   - a timedelta is a number of minutes; a duration "in hours" is kept   *)
(*     as that number of minutes (hours = minutes / 60), so 8.0 h is 480;  *)
(*   - a string is a sequence of one-character strings; pd.NA and a        *)
(*     non-string cell are the one-element sequences NA and NonStr;        *)
(*   - an optional value (None or a datetime) is a sequence of length 0    *)
(*     or 1.                                                               *)
(***************************************************************************)
EXTENDS Integers, Sequences, FiniteSets, TLC

VARIABLES
    now,            \* the wall clock, datetime.now(EGYPT_TZ)
    df,             \* the record table (global df), a sequence of rows
    selected_user,  \* st.session_state.selected_user
    call,           \* the engine operation applied last, its arguments and result
    admin_ops,      \* the number of admin submissions so far (bounded by MaxAdminOps)
    sheet,          \* the rows of the worksheet SHEET, as the runs of SpecSheet see it
    runs            \* the script runs of SpecSheet: position, selected user, own df

vars == <<now, df, selected_user, call, admin_ops, sheet, runs>>

-----------------------------------------------------------------------------
(* Bounds of the model.                                                    *)

\* Dates range over 1..MaxDay.
MaxDay == 2
\* The table holds at most MaxRows rows.
MaxRows == 2
\* The table holds at most MaxStamps recorded times (non-empty time cells).
MaxStamps == 4
\* A run explored holds at most MaxAdminOps admin submissions that edit,
\* deactivate, delete or restore rows.
MaxAdminOps == 1

-----------------------------------------------------------------------------
(* Program constants.                                                      *)

\* get_shift_date: the hour of the shift-date cutover (now.hour < 4).
CutoverHour == 4
\* parse_time: an "AM" time before this hour is put on the next day.
ShiftStartHour == 16
\* calculate_times: break slots 1..3 (range(1, 4)).
NumBreaks == 3

MinutesPerDay == 24 * 60

-----------------------------------------------------------------------------
(* Instants and dates.                                                     *)

DateOf(t) == t \div MinutesPerDay
HourOf(t) == (t % MinutesPerDay) \div 60
MinuteOf(t) == t % 60
MakeInstant(d, h, m) == d * MinutesPerDay + h * 60 + m

Dates == 1..MaxDay

\* The readings the clock takes in the runs explored: an evening, the night
\* after it before the 04:00 cutover, and the next morning and afternoon.
ClockInstants ==
    {MakeInstant(1, 18, 30), MakeInstant(2, 1, 30), MakeInstant(2, 10, 0), MakeInstant(2, 14, 0)}
Instants == {MakeInstant(d, h, m) : d \in Dates, h \in 0..23, m \in 0..59}

None == <<>>
Some(x) == <<x>>

-----------------------------------------------------------------------------
(* Cells and strings.                                                      *)

NA == <<"<NA>">>
NonStr == <<"<float>">>

isna(v) == v = NA
isstr(v) == v # NA /\ v # NonStr

Digits == <<"0", "1", "2", "3", "4", "5", "6", "7", "8", "9">>
DigitSet == {Digits[i] : i \in 1..10}
DigitVal(c) == (CHOOSE i \in 1..10 : Digits[i] = c) - 1
TwoDigits(n) == <<Digits[(n \div 10) + 1], Digits[(n % 10) + 1]>>

\* The character at position i, "" past either end.
At(s, i) == IF i \in 1..Len(s) THEN s[i] ELSE ""

Lower(c) ==
    CASE c = "A" -> "a"
      [] c = "P" -> "p"
      [] c = "M" -> "m"
      [] OTHER -> c

-----------------------------------------------------------------------------
(* get_shift_date, with the clock reading as its argument.                 *)

get_shift_date_le(t) ==
    IF HourOf(t) <= CutoverHour
    THEN DateOf(t - MinutesPerDay)
    ELSE DateOf(t)

get_shift_date(t) ==
    IF HourOf(t) < CutoverHour \/ (HourOf(t) = CutoverHour /\ MinuteOf(t) = 0)
    THEN DateOf(t - MinutesPerDay)
    ELSE DateOf(t)

-----------------------------------------------------------------------------
(* format_time: strftime("%I:%M %p").lstrip("0").                          *)

RECURSIVE lstrip0(_)
lstrip0(s) == IF Len(s) > 0 /\ s[1] = "0" THEN lstrip0(Tail(s)) ELSE s

\* strftime with %H for %I: the hour of the 24-hour clock.
strftime_HMp(t) ==
    LET tag == IF HourOf(t) < 12 THEN <<"A", "M">> ELSE <<"P", "M">>
    IN  TwoDigits(HourOf(t)) \o <<":">> \o TwoDigits(MinuteOf(t)) \o <<" ">> \o tag

strftime_IMp(t) ==
    LET h12 == IF HourOf(t) % 12 = 0 THEN 12 ELSE HourOf(t) % 12
        tag == IF HourOf(t) < 12 THEN <<"A", "M">> ELSE <<"P", "M">>
    IN  TwoDigits(h12) \o <<":">> \o TwoDigits(MinuteOf(t)) \o <<" ">> \o tag

format_time(t) == lstrip0(strftime_IMp(t))

-----------------------------------------------------------------------------
(* parse_time: strptime(f"{shift_date} {time_str}", "%Y-%m-%d %I:%M %p").  *)
(* The date part of the text is the shift date; what follows it is         *)
(* matched against \s+ %I : %M \s+ %p, and nothing may remain.             *)

RECURSIVE SkipWs(_, _)
SkipWs(s, i) == IF At(s, i) = " " THEN SkipWs(s, i + 1) ELSE i

\* %I is 1[0-2]|0[1-9]|[1-9]: the number of characters it takes at i.
HourLen(s, i) ==
    IF \/ (At(s, i) = "1" /\ At(s, i + 1) \in {"0", "1", "2"})
       \/ (At(s, i) = "0" /\ At(s, i + 1) \in (DigitSet \ {"0"}))
    THEN 2
    ELSE IF At(s, i) \in (DigitSet \ {"0"}) THEN 1 ELSE 0

\* %M is [0-5]\d|\d.
MinLen(s, i) ==
    IF At(s, i) \in {"0", "1", "2", "3", "4", "5"} /\ At(s, i + 1) \in DigitSet
    THEN 2
    ELSE IF At(s, i) \in DigitSet THEN 1 ELSE 0

NumberAt(s, i, n) ==
    IF n = 2 THEN 10 * DigitVal(s[i]) + DigitVal(s[i + 1]) ELSE DigitVal(s[i])

\* %p at j, reached over the blanks from w: am or pm in either case, at
\* least one blank before it and nothing after it.  The hour read by %I
\* is put on the 24-hour clock.
MatchTag(s, h12, minute, w, j) ==
    IF \/ j = w
       \/ Lower(At(s, j)) \notin {"a", "p"}
       \/ Lower(At(s, j + 1)) # "m"
       \/ j + 1 # Len(s)
    THEN None
    ELSE Some([hour   |-> IF Lower(At(s, j)) = "p"
                          THEN (IF h12 = 12 THEN 12 ELSE h12 + 12)
                          ELSE (IF h12 = 12 THEN 0 ELSE h12),
               minute |-> minute])

\* MatchBlanks with \s* for \s+: no blank is asked for before %p.
MatchBlanksOptional(s, h12, k, ml) ==
    IF ml = 0 THEN None
    ELSE MatchTag(s, h12, NumberAt(s, k, ml), k + ml - 1, SkipWs(s, k + ml))

\* \s+ after the ml characters of %M at k.
MatchBlanks(s, h12, k, ml) ==
    IF ml = 0 THEN None
    ELSE MatchTag(s, h12, NumberAt(s, k, ml), k + ml, SkipWs(s, k + ml))

\* The colon after the hl characters of %I at i, then %M.
MatchColon(s, i, hl) ==
    IF hl = 0 \/ At(s, i + hl) # ":" THEN None
    ELSE MatchBlanks(s, NumberAt(s, i, hl), i + hl + 1, MinLen(s, i + hl + 1))

MatchHour(s, i) == MatchColon(s, i, HourLen(s, i))

\* The time of day strptime reads from time_str: None on ValueError, else
\* Some([hour, minute]) with the hour on the 24-hour clock.
strptime(time_str) == MatchHour(time_str, SkipWs(time_str, 1))

endswith_AM(s) == Len(s) >= 2 /\ s[Len(s) - 1] = "A" /\ s[Len(s)] = "M"

\* rollover with other conditions: no time is moved; every time before 16:00 is moved.
rollover_never(p, time_str, shift_date) ==
    IF p = None THEN None
    ELSE Some(MakeInstant(shift_date, p[1].hour, p[1].minute))

rollover_any(p, time_str, shift_date) ==
    IF p = None THEN None
    ELSE IF p[1].hour < ShiftStartHour
         THEN Some(MakeInstant(shift_date, p[1].hour, p[1].minute) + MinutesPerDay)
         ELSE Some(MakeInstant(shift_date, p[1].hour, p[1].minute))

\* The try block of parse_time after strptime, p being what strptime read:
\* an "AM" time before 16:00 is put on the next day.
rollover(p, time_str, shift_date) ==
    IF p = None THEN None
    ELSE IF p[1].hour < ShiftStartHour /\ endswith_AM(time_str)
         THEN Some(MakeInstant(shift_date, p[1].hour, p[1].minute) + MinutesPerDay)
         ELSE Some(MakeInstant(shift_date, p[1].hour, p[1].minute))

parse_time(time_str, shift_date) ==
    IF isna(time_str) \/ ~isstr(time_str)
    THEN None
    ELSE rollover(strptime(time_str), time_str, shift_date)

-----------------------------------------------------------------------------
(* Rows of the table (EXPECTED_COLUMNS) and calculate_times.               *)

TIME_COLUMNS == <<"CheckIn", "CheckOut", "Break1Start", "Break1End",
                  "Break2Start", "Break2End", "Break3Start", "Break3End">>

TimeCols == {TIME_COLUMNS[k] : k \in 1..Len(TIME_COLUMNS)}

start_col(i) == CASE i = 1 -> "Break1Start" [] i = 2 -> "Break2Start" [] OTHER -> "Break3Start"
end_col(i) == CASE i = 1 -> "Break1End" [] i = 2 -> "Break2End" [] OTHER -> "Break3End"

notna(v) == ~isna(v)

\* parse_cell with midnight of the shift date for a cell that does not parse.
parse_cell_midnight(row, col, shift_date) ==
    IF notna(row[col])
    THEN (IF parse_time(row[col], shift_date) = None
          THEN Some(MakeInstant(shift_date, 0, 0))
          ELSE parse_time(row[col], shift_date))
    ELSE None

\* parse_time(row[col], shift_date) if pd.notna(row[col]) else None
parse_cell(row, col, shift_date) ==
    IF notna(row[col]) THEN parse_time(row[col], shift_date) ELSE None

\* elapsed with other arithmetic: a negative difference is clamped to 0; its sign is
\* dropped.
elapsed_clamped(start, end) ==
    IF start # None /\ end # None /\ end[1] >= start[1]
    THEN end[1] - start[1]
    ELSE 0

elapsed_abs(start, end) ==
    IF start # None /\ end # None
    THEN (IF end[1] >= start[1] THEN end[1] - start[1] ELSE start[1] - end[1])
    ELSE 0

\* (end - start).total_seconds() / 3600 if start and end, else 0
elapsed(start, end) ==
    IF start # None /\ end # None THEN end[1] - start[1] ELSE 0

\* One break slot's part of break_duration.
break_part(row, i, shift_date) ==
    elapsed(parse_cell(row, start_col(i), shift_date),
            parse_cell(row, end_col(i), shift_date))

\* The loop over range(1, i + 1).
RECURSIVE break_sum(_, _, _)
break_sum(row, i, shift_date) ==
    IF i = 0 THEN 0
    ELSE break_sum(row, i - 1, shift_date) + break_part(row, i, shift_date)

total_hours_of(row, shift_date) ==
    elapsed(parse_cell(row, "CheckIn", shift_date),
            parse_cell(row, "CheckOut", shift_date))

\* calculate_times with range(1, 3): the loop stops one slot short.
calculate_times_two_slots(row, shift_date) ==
    <<total_hours_of(row, shift_date), break_sum(row, NumBreaks - 1, shift_date)>>

\* (total_hours, break_duration), each in minutes.
calculate_times(row, shift_date) ==
    <<total_hours_of(row, shift_date), break_sum(row, NumBreaks, shift_date)>>

\* A row with the given time cells.
MakeRow(user, date, ci, co, b1s, b1e, b2s, b2e, b3s, b3e, th, bd, active) ==
    [User |-> user, Date |-> date, CheckIn |-> ci, CheckOut |-> co,
     Break1Start |-> b1s, Break1End |-> b1e,
     Break2Start |-> b2s, Break2End |-> b2e,
     Break3Start |-> b3s, Break3End |-> b3e,
     TotalHours |-> th, BreakDuration |-> bd, Active |-> active]

-----------------------------------------------------------------------------
(* Inputs of the engine operations.                                        *)

AM == <<"A", "M">>
PM == <<"P", "M">>

\* "H:MM AM" / "HH:MM PM": hour h12 in 1..12, with or without a leading zero.
HourText(h12, pad) ==
    IF pad \/ h12 >= 10 THEN TwoDigits(h12) ELSE <<Digits[h12 + 1]>>

Spell(h12, m, tag, pad) ==
    HourText(h12, pad) \o <<":">> \o TwoDigits(m) \o <<" ">> \o tag

StrictStrings ==
    {Spell(h, m, tag, pad) : h \in 1..12, m \in 0..59, tag \in {AM, PM}, pad \in BOOLEAN}

\* Spellings outside "H:MM AM/PM" that the format directives still admit.
LenientStrings ==
    { <<"1", ":", "3", "0", " ", "a", "m">>,
      <<"2", ":", "0", "0", " ", "p", "m">>,
      <<"1", "1", ":", "1", "5", " ", "A", "m">>,
      <<"4", ":", "5", " ", "P", "M">>,
      <<"1", ":", "5", " ", "A", "M">>,
      <<" ", "4", ":", "0", "0", " ", "P", "M">>,
      <<"9", ":", "0", "0", " ", " ", "A", "M">> }

EmptyString == <<>>
Banana == <<"b", "a", "n", "a", "n", "a">>
NoTag == <<"1", "4", ":", "3", "0">>

MalformedValues ==
    { NA, NonStr, EmptyString, Banana, NoTag,
      <<"1", "3", ":", "0", "0", " ", "P", "M">>,
      <<"0", ":", "3", "0", " ", "A", "M">>,
      <<"0", "0", ":", "3", "0", " ", "A", "M">>,
      <<"4", ":", "6", "0", " ", "P", "M">>,
      <<"4", ":", "0", "0", "P", "M">>,
      <<"4", ":", "0", "0", " ", "P", "M", " ">>,
      <<"4", ":", "0", "0", " ", "P">>,
      <<"4", ":", "0", "0">>,
      <<"4", " ", "P", "M">>,
      <<"P", "M">>,
      <<"A", "M">>,
      <<"1", ":", "3", "0", ":", "0", "0", " ", "A", "M">> }

ParseInputs == StrictStrings \cup LenientStrings \cup MalformedValues

\* Cells of the rows calculate_times is applied to.
T400PM == Spell(4, 0, PM, FALSE)
T500PM == Spell(5, 0, PM, FALSE)
T600PM == Spell(6, 0, PM, FALSE)
T630PM == Spell(6, 30, PM, FALSE)
T800PM == Spell(8, 0, PM, FALSE)
T830PM == Spell(8, 30, PM, FALSE)
T1000PM == Spell(10, 0, PM, FALSE)
T1200AM == Spell(12, 0, AM, FALSE)
T130AM == Spell(1, 30, AM, FALSE)
\* A time the edit form accepts, its tag in lower case.
T130am == <<"1", ":", "3", "0", " ", "a", "m">>

CheckInCells == {NA, T400PM, T600PM, Banana}
CheckOutCells == {NA, T500PM, T600PM, T1200AM, Banana}
Break1Cells == {NA, T600PM, T630PM, Banana}
Break2Cells == {NA, T800PM, T830PM}
Break3StartCells == {NA, T1000PM, T130am}
Break3EndCells == {NA, T1000PM, T130AM}

EngineRows ==
    {MakeRow("u1", 1, ci, co, b1s, b1e, b2s, b2e, b3s, b3e, 0, 0, TRUE) :
        ci \in CheckInCells, co \in CheckOutCells,
        b1s \in Break1Cells, b1e \in Break1Cells,
        b2s \in Break2Cells, b2e \in Break2Cells,
        b3s \in Break3StartCells, b3e \in Break3EndCells}

-----------------------------------------------------------------------------
(* The engine on its own: each action applies one operation to inputs      *)
(* drawn from the sets above and records the call.                         *)

NoCall == [op |-> "none", arg |-> <<>>, out |-> <<>>]

StartInstant == MakeInstant(1, 18, 30)

\* The script runs that SpecSheet takes apart into their sheet calls; in
\* the other specifications a run is one step and df is the table as saved
\* and loaded again.
Runs == {1, 2}
IdleRun == [pc |-> "idle", user |-> None, df |-> <<>>]

InitSystem ==
    /\ now = StartInstant
    /\ df = <<>>
    /\ selected_user = None
    /\ admin_ops = 0
    /\ sheet = <<>>
    /\ runs = [r \in Runs |-> IdleRun]

InitEngine ==
    /\ InitSystem
    /\ call = NoCall

CallGetShiftDate ==
    /\ call = NoCall
    /\ \E t \in Instants :
          call' = [op |-> "get_shift_date", arg |-> <<t>>, out |-> get_shift_date(t)]
    /\ UNCHANGED <<now, df, selected_user, admin_ops, sheet, runs>>

CallFormatTime ==
    /\ call = NoCall
    /\ \E t \in Instants :
          call' = [op |-> "format_time", arg |-> <<t>>, out |-> format_time(t)]
    /\ UNCHANGED <<now, df, selected_user, admin_ops, sheet, runs>>

CallParseTime ==
    /\ call = NoCall
    /\ \E time_str \in ParseInputs, shift_date \in Dates :
          call' = [op |-> "parse_time", arg |-> <<time_str, shift_date>>,
                   out |-> parse_time(time_str, shift_date)]
    /\ UNCHANGED <<now, df, selected_user, admin_ops, sheet, runs>>

\* parse_time(format_time(T), T.date())
CallRoundTrip ==
    /\ call = NoCall
    /\ \E t \in Instants :
          call' = [op |-> "round_trip", arg |-> <<t>>,
                   out |-> parse_time(format_time(t), DateOf(t))]
    /\ UNCHANGED <<now, df, selected_user, admin_ops, sheet, runs>>

\* A stamp written at t and read back on t's shift date:
\* parse_time(format_time(now), get_shift_date(now)).
CallStampReadBack ==
    /\ call = NoCall
    /\ \E t \in Instants :
          call' = [op |-> "stamp_read_back", arg |-> <<t>>,
                   out |-> parse_time(format_time(t), get_shift_date(t))]
    /\ UNCHANGED <<now, df, selected_user, admin_ops, sheet, runs>>

CallCalculateTimes ==
    /\ call = NoCall
    /\ \E row \in EngineRows, shift_date \in Dates :
          call' = [op |-> "calculate_times", arg |-> <<row, shift_date>>,
                   out |-> calculate_times(row, shift_date)]
    /\ UNCHANGED <<now, df, selected_user, admin_ops, sheet, runs>>

\* The caller takes the result; the next call starts afresh.
Return ==
    /\ call # NoCall
    /\ call' = NoCall
    /\ UNCHANGED <<now, df, selected_user, admin_ops, sheet, runs>>

NextEngine ==
    \/ Return
    \/ CallGetShiftDate
    \/ CallFormatTime
    \/ CallParseTime
    \/ CallRoundTrip
    \/ CallStampReadBack
    \/ CallCalculateTimes

SpecEngine == InitEngine /\ [][NextEngine]_vars

-----------------------------------------------------------------------------
(* The table and the operations on it.  Every run of the script loads df   *)
(* from the sheet, handles one click and saves df back, so an action is    *)
(* one such run and df is the table as saved and loaded again.             *)

Users == {"u1", "u2"}

\* save_data followed by the next run's load: '' is read back as pd.NA.
save_data(table) ==
    [k \in 1..Len(table) |->
        [col \in DOMAIN table[k] |->
            IF col \in TimeCols /\ table[k][col] = EmptyString
            THEN NA
            ELSE table[k][col]]]

SetTotals(row, totals) ==
    [row EXCEPT !.TotalHours = totals[1], !.BreakDuration = totals[2]]

\* total_hours, break_duration = calculate_times(row, shift_date), stored.
Recalc(row, shift_date) == SetTotals(row, calculate_times(row, shift_date))

\* Stamp without the totals: the cell is written and the totals are left.
StampNoRecalc(table, k, col, t, shift_date) ==
    save_data([table EXCEPT ![k] = [@ EXCEPT ![col] = format_time(t)]])

\* df.at[row_index, col] = format_time(now); the totals; save_data().
Stamp(table, k, col, t, shift_date) ==
    save_data([table EXCEPT ![k] = Recalc([@ EXCEPT ![col] = format_time(t)], shift_date)])

\* The number of recorded times in a table, and the tables within the bounds.
RECURSIVE Stamps(_)
Stamps(table) ==
    IF table = <<>> THEN 0
    ELSE Cardinality({col \in TimeCols : notna(Head(table)[col])}) + Stamps(Tail(table))

Within(table) == Len(table) <= MaxRows /\ Stamps(table) <= MaxStamps

IndicesOf(table, user) == {k \in 1..Len(table) : table[k].User = user}
SetMax(S) == CHOOSE x \in S : \A y \in S : y <= x

active_users == {df[k].User : k \in {j \in 1..Len(df) : df[j].Active}}

\* user_records['Active'].any() if not user_records.empty else True
user_active(user) ==
    IndicesOf(df, user) = {} \/ \E k \in IndicesOf(df, user) : df[k].Active

user_rows(user, shift_date) ==
    {k \in IndicesOf(df, user) : df[k].Date = shift_date}

new_row(user, shift_date) ==
    MakeRow(user, shift_date, NA, NA, NA, NA, NA, NA, NA, NA, 0, 0, TRUE)

\* The clock moves on.
Tick ==
    /\ \E t \in ClockInstants : t > now /\ now' = t
    /\ UNCHANGED <<df, selected_user, call, admin_ops, sheet, runs>>

\* The user-selection form: ACTIVATE.
SelectUser ==
    /\ \E user_name \in active_users :
          /\ selected_user # Some(user_name)
          /\ selected_user' = Some(user_name)
    /\ UNCHANGED <<now, df, call, admin_ops, sheet, runs>>

\* A run of the user portal for a selected user none of whose records is
\* active: access denied, the user is deselected.
AccessDenied ==
    /\ selected_user # None
    /\ ~user_active(selected_user[1])
    /\ selected_user' = None
    /\ UNCHANGED <<now, df, call, admin_ops, sheet, runs>>

\* The guard of every user-portal button.
PortalOpen == selected_user # None /\ user_active(selected_user[1])

\* NewSession with now.date() for the shift date.
NewSessionCalendarDate ==
    /\ PortalOpen
    /\ Len(df) < MaxRows
    /\ df' = save_data(Append(df, new_row(selected_user[1], DateOf(now))))
    /\ UNCHANGED <<now, selected_user, call, admin_ops, sheet, runs>>

NewSession ==
    /\ PortalOpen
    /\ Len(df) < MaxRows
    /\ df' = save_data(Append(df, new_row(selected_user[1], get_shift_date(now))))
    /\ UNCHANGED <<now, selected_user, call, admin_ops, sheet, runs>>

\* The buttons of MISSION CONTROL act on the user's last row of the
\* current shift date.
HasRow == PortalOpen /\ user_rows(selected_user[1], get_shift_date(now)) # {}
\* row_index with user_rows.index[0].
row_index_first ==
    CHOOSE x \in user_rows(selected_user[1], get_shift_date(now)) :
        \A y \in user_rows(selected_user[1], get_shift_date(now)) : x <= y

row_index == SetMax(user_rows(selected_user[1], get_shift_date(now)))

\* CheckIn without the test that the cell is empty.
CheckInAgain ==
    /\ HasRow
    /\ Stamps(df) < MaxStamps \/ notna(df[row_index].CheckIn)
    /\ df' = Stamp(df, row_index, "CheckIn", now, get_shift_date(now))
    /\ UNCHANGED <<now, selected_user, call, admin_ops, sheet, runs>>

CheckIn ==
    /\ HasRow
    /\ isna(df[row_index].CheckIn)
    /\ Stamps(df) < MaxStamps
    /\ df' = Stamp(df, row_index, "CheckIn", now, get_shift_date(now))
    /\ UNCHANGED <<now, selected_user, call, admin_ops, sheet, runs>>

\* BreakStart without the test of the break before it.
BreakStartAnyOrder(i) ==
    /\ HasRow
    /\ isna(df[row_index][start_col(i)])
    /\ notna(df[row_index].CheckIn)
    /\ Stamps(df) < MaxStamps
    /\ df' = Stamp(df, row_index, start_col(i), now, get_shift_date(now))
    /\ UNCHANGED <<now, selected_user, call, admin_ops, sheet, runs>>

BreakStart(i) ==
    /\ HasRow
    /\ isna(df[row_index][start_col(i)])
    /\ notna(df[row_index].CheckIn)
    /\ (i = 1 \/ notna(df[row_index][end_col(i - 1)]))
    /\ Stamps(df) < MaxStamps
    /\ df' = Stamp(df, row_index, start_col(i), now, get_shift_date(now))
    /\ UNCHANGED <<now, selected_user, call, admin_ops, sheet, runs>>

BreakEnd(i) ==
    /\ HasRow
    /\ notna(df[row_index][start_col(i)])
    /\ isna(df[row_index][end_col(i)])
    /\ Stamps(df) < MaxStamps
    /\ df' = Stamp(df, row_index, end_col(i), now, get_shift_date(now))
    /\ UNCHANGED <<now, selected_user, call, admin_ops, sheet, runs>>

CheckOut ==
    /\ HasRow
    /\ notna(df[row_index].CheckIn)
    /\ isna(df[row_index].CheckOut)
    /\ \A i \in 1..NumBreaks :
          notna(df[row_index][start_col(i)]) => notna(df[row_index][end_col(i)])
    /\ Stamps(df) < MaxStamps
    /\ df' = Stamp(df, row_index, "CheckOut", now, get_shift_date(now))
    /\ UNCHANGED <<now, selected_user, call, admin_ops, sheet, runs>>

-----------------------------------------------------------------------------
(* The admin's operations (COMMAND CENTER).                                *)

\* What the admin types into a time field of the edit form or the editor,
\* and the time fields the admin retypes in the runs explored.
FormTexts == {EmptyString, T500PM, Banana}
EditFields == {"CheckIn", "CheckOut", "Break1Start", "Break1End"}

AdminMay == admin_ops < MaxAdminOps

\* ADD USER: a first row for a user with no record, or with no active one.
AddUser ==
    /\ \E new_user \in Users :
          /\ IndicesOf(df, new_user) = {} \/ ~(\E k \in IndicesOf(df, new_user) : df[k].Active)
          /\ Len(df) < MaxRows
          /\ df' = save_data(Append(df, new_row(new_user, get_shift_date(now))))
    /\ UNCHANGED <<now, selected_user, call, admin_ops, sheet, runs>>

\* The edit form as submitted: the row's cells as shown ("" for pd.NA) with
\* one field retyped.
FormOf(row, field, text) ==
    [col \in TimeCols |->
        IF col = field THEN text
        ELSE IF notna(row[col]) THEN row[col] ELSE EmptyString]

\* FormValid with the flag set by the last field looked at.
FormValidLast(form) ==
    form["Break3End"] = EmptyString \/ strptime(form["Break3End"]) # None

FormValid(form) ==
    \A col \in TimeCols : form[col] = EmptyString \/ strptime(form[col]) # None

\* The row the valid form is written to, before the totals.
FormApplied(row, form, active) ==
    [col \in DOMAIN row |->
        IF col \in TimeCols
        THEN (IF form[col] = EmptyString THEN NA ELSE form[col])
        ELSE IF col = "Active" THEN active ELSE row[col]]

\* SAVE SESSION with the field `field` of the form retyped as `text` and the
\* Active box as `active`: the last row of the user on the chosen date.
SubmitEdit(session_index, field, text, active) ==
    LET session_row == df[session_index]
        edit_date == session_row.Date
        form == FormOf(session_row, field, text)
    IN  /\ session_index =
              SetMax({k \in IndicesOf(df, session_row.User) : df[k].Date = edit_date})
        /\ df' = IF FormValid(form)
                 THEN save_data([df EXCEPT ![session_index] =
                          Recalc(FormApplied(session_row, form, active), edit_date)])
                 ELSE df
        /\ Within(df')

\* EDIT SESSION, SAVE SESSION.
EditSession ==
    /\ AdminMay
    /\ \E session_index \in 1..Len(df), field \in EditFields, text \in FormTexts,
          active \in BOOLEAN :
          SubmitEdit(session_index, field, text, active)
    /\ admin_ops' = admin_ops + 1
    /\ UNCHANGED <<now, selected_user, call, sheet, runs>>

\* The one cell the admin changes in the data editor, if any.
CellEdits(rows) ==
    {<<0, "none", NA>>}
        \cup {<<k, col, v>> : k \in rows, col \in EditFields, v \in {NA, T500PM, Banana}}
        \cup {<<k, "Active", v>> : k \in rows, v \in BOOLEAN}
        \cup {<<k, "Date", v>> : k \in rows, v \in Dates}

\* SAVE DATA MATRIX: the rows the filters show, as edited, with their totals
\* computed again from each row's own Date, replace the rows of df.
SaveDataMatrix ==
    /\ AdminMay
    /\ \E filter_user \in {"All"} \cup {df[k].User : k \in 1..Len(df)},
          filter_date \in {0} \cup {df[k].Date : k \in 1..Len(df)} :
          LET shown == {k \in 1..Len(df) :
                            /\ filter_user = "All" \/ df[k].User = filter_user
                            /\ filter_date = 0 \/ df[k].Date = filter_date}
          IN  /\ shown # {}
              /\ \E edit \in CellEdits(shown) :
                    LET edited_df(k) ==
                            IF k = edit[1] THEN [df[k] EXCEPT ![edit[2]] = edit[3]] ELSE df[k]
                    IN  /\ df' = save_data([k \in 1..Len(df) |->
                                IF k \in shown
                                THEN Recalc(edited_df(k), edited_df(k).Date)
                                ELSE df[k]])
                        /\ Within(df')
    /\ admin_ops' = admin_ops + 1
    /\ UNCHANGED <<now, selected_user, call, sheet, runs>>

\* SoftDelete without the row mask: df['Active'] = False.
SoftDeleteAll ==
    /\ AdminMay
    /\ df # <<>>
    /\ df' = save_data([k \in 1..Len(df) |-> [df[k] EXCEPT !.Active = FALSE]])
    /\ admin_ops' = admin_ops + 1
    /\ UNCHANGED <<now, selected_user, call, sheet, runs>>

\* EXECUTE ACTION, "Delete User (Keep Data)".
SoftDelete ==
    /\ AdminMay
    /\ \E remove_user \in {df[k].User : k \in 1..Len(df)} :
          df' = save_data([k \in 1..Len(df) |->
                    IF df[k].User = remove_user
                    THEN [df[k] EXCEPT !.Active = FALSE]
                    ELSE df[k]])
    /\ admin_ops' = admin_ops + 1
    /\ UNCHANGED <<now, selected_user, call, sheet, runs>>

\* EXECUTE ACTION, "Delete User and Data".
HardDelete ==
    /\ AdminMay
    /\ \E remove_user \in {df[k].User : k \in 1..Len(df)} :
          df' = save_data(SelectSeq(df, LAMBDA r : r.User # remove_user))
    /\ admin_ops' = admin_ops + 1
    /\ UNCHANGED <<now, selected_user, call, sheet, runs>>

\* The rows of an uploaded workbook (sheet DataMatrix).
UploadRows ==
    {MakeRow(user, date, ci, T600PM, NA, NA, NA, NA, NA, NA, th, 0, TRUE) :
        user \in Users, date \in Dates, ci \in {NA, T400PM}, th \in {0, 5 * 60}}

\* drop_duplicates(subset=['User', 'Date', 'CheckIn'], keep='last')
Duplicated(table, k) ==
    \E j \in (k + 1)..Len(table) :
        /\ table[j].User = table[k].User
        /\ table[j].Date = table[k].Date
        /\ table[j].CheckIn = table[k].CheckIn

RECURSIVE KeepFrom(_, _)
KeepFrom(table, k) ==
    IF k > Len(table) THEN <<>>
    ELSE (IF Duplicated(table, k) THEN <<>> ELSE <<table[k]>>) \o KeepFrom(table, k + 1)

drop_duplicates(table) == KeepFrom(table, 1)

\* restore_from_excel: the uploaded rows are appended as they are.
RestoreFromExcel ==
    /\ AdminMay
    /\ \E uploaded \in UploadRows :
          LET restored == drop_duplicates(Append(df, uploaded))
          IN  /\ Within(restored)
              /\ df' = save_data(restored)
    /\ admin_ops' = admin_ops + 1
    /\ UNCHANGED <<now, selected_user, call, sheet, runs>>

Init ==
    /\ InitSystem
    /\ call = NoCall

Next ==
    \/ Tick
    \/ SelectUser
    \/ AccessDenied
    \/ NewSession
    \/ CheckIn
    \/ \E i \in 1..NumBreaks : BreakStart(i)
    \/ \E i \in 1..NumBreaks : BreakEnd(i)
    \/ CheckOut
    \/ AddUser
    \/ EditSession
    \/ SaveDataMatrix
    \/ SoftDelete
    \/ HardDelete
    \/ RestoreFromExcel

Spec == Init /\ [][Next]_vars

\* The user portal on its own: the admin only adds users, so no record is
\* ever inactive and the access check never rejects.
NextPortal ==
    \/ Tick
    \/ SelectUser
    \/ NewSession
    \/ CheckIn
    \/ \E i \in 1..NumBreaks : BreakStart(i)
    \/ \E i \in 1..NumBreaks : BreakEnd(i)
    \/ CheckOut
    \/ AddUser

SpecPortal == Init /\ [][NextPortal]_vars

\* The user portal and the admin's edit form while the clock stands at
\* StartInstant.
NextEditor ==
    \/ SelectUser
    \/ NewSession
    \/ CheckIn
    \/ \E i \in 1..NumBreaks : BreakStart(i)
    \/ \E i \in 1..NumBreaks : BreakEnd(i)
    \/ CheckOut
    \/ AddUser
    \/ EditSession

SpecEditor == Init /\ [][NextEditor]_vars

-----------------------------------------------------------------------------
(* Two runs of the script against the one sheet.  Streamlit starts a run   *)
(* of the whole script for every click of every browser session: the run   *)
(* loads its own df from the sheet, handles the click and, in save_data,   *)
(* makes three calls to the sheet; calls of different runs interleave.     *)
(* A data row of the sheet is written here as the row it is loaded as.     *)

\* The row SHEET.append_row(EXPECTED_COLUMNS) writes.
HeaderRow == [header |-> TRUE]
IsHeader(sheet_row) == DOMAIN sheet_row = {"header"}

\* A row of column names read as a record: the Date is coerced to NaT
\* (day 0), the totals to 0.0, to_boolean("Active") is True.
load_row(sheet_row) ==
    IF IsHeader(sheet_row)
    THEN MakeRow("User", 0, <<"CheckIn">>, <<"CheckOut">>,
                 <<"Break1Start">>, <<"Break1End">>, <<"Break2Start">>, <<"Break2End">>,
                 <<"Break3Start">>, <<"Break3End">>, 0, 0, TRUE)
    ELSE sheet_row

\* SHEET.get_all_records() and the conversions of the load: the first row
\* is the header, every row under it a record.
get_all_records(rows) ==
    IF Len(rows) = 0 THEN <<>>
    ELSE [k \in 1..(Len(rows) - 1) |-> load_row(rows[k + 1])]

\* The sheet at the start: the header and a fresh record of each user for
\* the shift date of StartInstant.
InitSheetRows ==
    <<HeaderRow, new_row("u1", get_shift_date(StartInstant)),
                 new_row("u2", get_shift_date(StartInstant))>>

InitSheet ==
    /\ now = StartInstant
    /\ df = <<>>
    /\ selected_user = None
    /\ admin_ops = 0
    /\ call = NoCall
    /\ sheet = InitSheetRows
    /\ runs = [r \in Runs |-> IdleRun]

\* A run starts in the session of `user` and loads df from the sheet.
Load(r) ==
    /\ runs[r].pc = "idle"
    /\ \E user \in Users :
          runs' = [runs EXCEPT ![r] = [pc |-> "loaded", user |-> Some(user),
                                      df |-> get_all_records(sheet)]]
    /\ UNCHANGED <<now, df, selected_user, call, admin_ops, sheet>>

\* get_all_records raises: the run goes on with an empty df.
LoadFails(r) ==
    /\ runs[r].pc = "idle"
    /\ \E user \in Users :
          runs' = [runs EXCEPT ![r] = [pc |-> "loaded", user |-> Some(user), df |-> <<>>]]
    /\ UNCHANGED <<now, df, selected_user, call, admin_ops, sheet>>

\* The run's user on the run's df: the rows of the current shift date.
run_rows(r) ==
    {k \in IndicesOf(runs[r].df, runs[r].user[1]) :
        runs[r].df[k].Date = get_shift_date(now)}

\* CHECK IN in run r, up to the call of save_data.
CheckInRun(r) ==
    /\ runs[r].pc = "loaded"
    /\ \E k \in IndicesOf(runs[r].df, runs[r].user[1]) : runs[r].df[k].Active
    /\ run_rows(r) # {}
    /\ isna(runs[r].df[SetMax(run_rows(r))].CheckIn)
    /\ runs' = [runs EXCEPT
                  ![r].pc = "clear",
                  ![r].df = [@ EXCEPT ![SetMax(run_rows(r))] =
                               Recalc([@ EXCEPT !.CheckIn = format_time(now)],
                                      get_shift_date(now))]]
    /\ UNCHANGED <<now, df, selected_user, call, admin_ops, sheet>>

\* save_data: SHEET.clear()
SaveClear(r) ==
    /\ runs[r].pc = "clear"
    /\ sheet' = <<>>
    /\ runs' = [runs EXCEPT ![r].pc = "header"]
    /\ UNCHANGED <<now, df, selected_user, call, admin_ops>>

\* save_data: SHEET.append_row(EXPECTED_COLUMNS)
SaveHeader(r) ==
    /\ runs[r].pc = "header"
    /\ sheet' = Append(sheet, HeaderRow)
    /\ runs' = [runs EXCEPT ![r].pc = "rows"]
    /\ UNCHANGED <<now, df, selected_user, call, admin_ops>>

\* save_data: if data: SHEET.append_rows(data)
SaveRows(r) ==
    /\ runs[r].pc = "rows"
    /\ sheet' = IF Len(runs[r].df) = 0 THEN sheet ELSE sheet \o save_data(runs[r].df)
    /\ runs' = [runs EXCEPT ![r].pc = "done"]
    /\ UNCHANGED <<now, df, selected_user, call, admin_ops>>

\* save_data: the sheet call the run is at raises; the except clause
\* reports the error and save_data returns.
SaveFails(r) ==
    /\ runs[r].pc \in {"clear", "header", "rows"}
    /\ runs' = [runs EXCEPT ![r].pc = "failed"]
    /\ UNCHANGED <<now, df, selected_user, call, admin_ops, sheet>>

NextSheet ==
    \/ Tick
    \/ \E r \in Runs : Load(r)
    \/ \E r \in Runs : LoadFails(r)
    \/ \E r \in Runs : CheckInRun(r)
    \/ \E r \in Runs : SaveClear(r)
    \/ \E r \in Runs : SaveHeader(r)
    \/ \E r \in Runs : SaveRows(r)
    \/ \E r \in Runs : SaveFails(r)

SpecSheet == InitSheet /\ [][NextSheet]_vars

-----------------------------------------------------------------------------
(* Properties of the engine operations, checked under SpecEngine.          *)

IsCall(op) == call.op = op

StartsWith(s, prefix) ==
    Len(s) >= Len(prefix) /\ SubSeq(s, 1, Len(prefix)) = prefix

\* The time of day a 12-hour reading denotes, on the 24-hour clock.
Hour24(h12, tag) == (h12 % 12) + (IF tag = PM THEN 12 ELSE 0)

\* C1: get_shift_date(now) is now's date minus one day when now's hour is
\* below 4, or is 4 with minute 0, and now's date otherwise; 03:59 and 04:00
\* on day D give D-1, 04:01 and 23:59 on D give D.
C1_ShiftDateRule ==
    IsCall("get_shift_date") =>
        LET t == call.arg[1]
            d == t \div (24 * 60)
            hour == (t - d * 24 * 60) \div 60
            minute == (t - d * 24 * 60) - hour * 60
        IN  /\ (hour < 4 \/ (hour = 4 /\ minute = 0)) => call.out = d - 1
            /\ ~(hour < 4 \/ (hour = 4 /\ minute = 0)) => call.out = d
            /\ (hour = 3 /\ minute = 59) => call.out = d - 1
            /\ (hour = 4 /\ minute = 1) => call.out = d
            /\ (hour = 23 /\ minute = 59) => call.out = d

\* get_shift_date was applied at exactly 04:00 of day 2 and gave day 1.
C1_Witness ==
    /\ IsCall("get_shift_date")
    /\ call.arg[1] = MakeInstant(2, 4, 0)
    /\ call.out = 1

\* C2: for every shift date D and every "H:MM AM" string, parse_time gives
\* that time of day on day D+1.
C2_AMRollsToNextDay ==
    IsCall("parse_time") =>
        \A h \in 1..12, pad \in BOOLEAN :
            StartsWith(call.arg[1], HourText(h, pad) \o <<":">>) =>
                \A m \in 0..59 :
                    call.arg[1] = Spell(h, m, AM, pad) =>
                        call.out = Some(MakeInstant(call.arg[2] + 1, Hour24(h, AM), m))

\* parse_time("1:30 AM", day 1) was applied and gave 01:30 on day 2.
C2_Witness ==
    /\ IsCall("parse_time")
    /\ call.arg = <<Spell(1, 30, AM, FALSE), 1>>
    /\ call.out = Some(MakeInstant(2, 1, 30))

\* C3: for every shift date D and every "H:MM PM" string, those of 12:00 to
\* 15:59 included, parse_time gives that time of day on day D itself.
C3_PMNeverRolls ==
    IsCall("parse_time") =>
        \A h \in 1..12, pad \in BOOLEAN :
            StartsWith(call.arg[1], HourText(h, pad) \o <<":">>) =>
                \A m \in 0..59 :
                    call.arg[1] = Spell(h, m, PM, pad) =>
                        call.out = Some(MakeInstant(call.arg[2], Hour24(h, PM), m))

\* parse_time("2:00 PM", day 1) was applied and gave 14:00 on day 1.
C3_Witness ==
    /\ IsCall("parse_time")
    /\ call.arg = <<Spell(2, 0, PM, FALSE), 1>>
    /\ call.out = Some(MakeInstant(1, 14, 0))

\* The strings the directives %I:%M %p admit after the date: optional
\* blanks, an hour 1..12 (a leading zero allowed), a colon, a minute 0..59
\* (one or two digits), at least one blank, and am or pm in either case.
HourSpellings ==
    {<<Digits[h + 1]>> : h \in 1..9} \cup {TwoDigits(h) : h \in 1..12}
MinuteSpellings ==
    {<<Digits[m + 1]>> : m \in 0..9} \cup {TwoDigits(m) : m \in 0..59}
TagSpellings ==
    {<<a, b>> : a \in {"A", "a", "P", "p"}, b \in {"M", "m"}}
Blank(s) == \A k \in 1..Len(s) : s[k] = " "

Admitted(s) ==
    \E i \in 1..Len(s), c \in 1..Len(s), w \in 1..Len(s), j \in 1..Len(s) :
        /\ i < c /\ c + 1 < w /\ w < j
        /\ Blank(SubSeq(s, 1, i - 1))
        /\ SubSeq(s, i, c - 1) \in HourSpellings
        /\ s[c] = ":"
        /\ SubSeq(s, c + 1, w - 1) \in MinuteSpellings
        /\ Blank(SubSeq(s, w, j - 1))
        /\ SubSeq(s, j, Len(s)) \in TagSpellings

C5_RoundTripAsStated ==
    IsCall("round_trip") =>
        LET t == call.arg[1]
        IN  call.out = IF HourOf(t) < 4 THEN Some(t + MinutesPerDay) ELSE Some(t)

\* C5 amended: parse_time(format_time(T), T.date()) is T + 1 day for every
\* T whose hour is in [0,12) (every T format_time tags AM), and T for every
\* T whose hour is in [12,24).
C5_RoundTripAmended ==
    IsCall("round_trip") =>
        LET t == call.arg[1]
        IN  call.out = IF HourOf(t) < 12 THEN Some(t + MinutesPerDay) ELSE Some(t)

\* The round trip was applied to 05:00 of day 1 and gave 05:00 of day 2.
C5_Witness ==
    /\ IsCall("round_trip")
    /\ call.arg[1] = MakeInstant(1, 5, 0)
    /\ call.out = Some(MakeInstant(2, 5, 0))

\* The difference end - start of two cells when both parse, else 0.
Elapsed(start, end, shift_date) ==
    LET a == parse_time(start, shift_date)
        b == parse_time(end, shift_date)
    IN  IF a # None /\ b # None THEN b[1] - a[1] ELSE 0

BothParse(start, end, shift_date) ==
    parse_time(start, shift_date) # None /\ parse_time(end, shift_date) # None

\* C6: calculate_times' first result is parsed CheckOut - parsed CheckIn
\* when both parse, and 0 when either is missing or does not parse.
C6_TotalHours ==
    IsCall("calculate_times") =>
        LET row == call.arg[1]
            d == call.arg[2]
        IN  /\ BothParse(row.CheckIn, row.CheckOut, d) =>
                 call.out[1] = parse_time(row.CheckOut, d)[1] - parse_time(row.CheckIn, d)[1]
            /\ ~BothParse(row.CheckIn, row.CheckOut, d) => call.out[1] = 0
            /\ (row.CheckIn = T400PM /\ row.CheckOut = T1200AM) => call.out[1] = 8 * 60
            /\ row.CheckOut = NA => call.out[1] = 0

\* calculate_times was applied to CheckIn "4:00 PM", CheckOut "12:00 AM" and
\* gave 8 hours.
C6_Witness ==
    /\ IsCall("calculate_times")
    /\ call.arg[1].CheckIn = T400PM
    /\ call.arg[1].CheckOut = T1200AM
    /\ call.out[1] = 8 * 60

\* C7: calculate_times' second result is the sum, over the break slots 1..3
\* whose start and end both parse, of parsed end - parsed start; a slot with
\* one side missing or unparseable adds 0.
C7_BreakHours ==
    IsCall("calculate_times") =>
        LET row == call.arg[1]
            d == call.arg[2]
        IN  /\ call.out[2] = Elapsed(row.Break1Start, row.Break1End, d)
                               + Elapsed(row.Break2Start, row.Break2End, d)
                               + Elapsed(row.Break3Start, row.Break3End, d)
            /\ ( /\ row.Break1Start = T600PM /\ row.Break1End = T630PM
                 /\ row.Break2Start = NA /\ row.Break2End = NA
                 /\ row.Break3Start = NA /\ row.Break3End = NA )
               => call.out[2] = 30

\* calculate_times was applied to Break1 "6:00 PM"/"6:30 PM", a complete
\* Break2 and a Break3 with its start only, and gave 0.5 + 0.5 hours.
C7_Witness ==
    /\ IsCall("calculate_times")
    /\ call.arg[1].Break1Start = T600PM /\ call.arg[1].Break1End = T630PM
    /\ call.arg[1].Break2Start = T800PM /\ call.arg[1].Break2End = T830PM
    /\ call.arg[1].Break3Start = T1000PM /\ call.arg[1].Break3End = NA
    /\ call.out[2] = 60

\* C8: when CheckOut parses before CheckIn the total is the negative
\* difference, and a break slot whose end parses before its start adds its
\* negative difference: nothing is clamped or rejected.
C8_NegativePassThrough ==
    IsCall("calculate_times") =>
        LET row == call.arg[1]
            d == call.arg[2]
            late(a, b) == BothParse(a, b, d) /\ parse_time(b, d)[1] < parse_time(a, d)[1]
        IN  /\ late(row.CheckIn, row.CheckOut) =>
                 /\ call.out[1] < 0
                 /\ call.out[1] = Elapsed(row.CheckIn, row.CheckOut, d)
            /\ late(row.Break1Start, row.Break1End) =>
                 call.out[2] - Elapsed(row.Break2Start, row.Break2End, d)
                             - Elapsed(row.Break3Start, row.Break3End, d)
                    = Elapsed(row.Break1Start, row.Break1End, d)
            /\ late(row.Break2Start, row.Break2End) =>
                 call.out[2] - Elapsed(row.Break1Start, row.Break1End, d)
                             - Elapsed(row.Break3Start, row.Break3End, d)
                    = Elapsed(row.Break2Start, row.Break2End, d)
            /\ late(row.Break3Start, row.Break3End) =>
                 call.out[2] - Elapsed(row.Break1Start, row.Break1End, d)
                             - Elapsed(row.Break2Start, row.Break2End, d)
                    = Elapsed(row.Break3Start, row.Break3End, d)
            /\ (late(row.Break1Start, row.Break1End)
                  /\ ~BothParse(row.Break2Start, row.Break2End, d)
                  /\ ~BothParse(row.Break3Start, row.Break3End, d))
               => call.out[2] < 0

\* calculate_times was applied to CheckIn "6:00 PM", CheckOut "5:00 PM",
\* Break1 "6:30 PM"/"6:00 PM" and gave -1 hour and -0.5 hours.
C8_Witness ==
    /\ IsCall("calculate_times")
    /\ call.arg[1].CheckIn = T600PM /\ call.arg[1].CheckOut = T500PM
    /\ call.arg[1].Break1Start = T630PM /\ call.arg[1].Break1End = T600PM
    /\ call.out = <<-60, -30>>

-----------------------------------------------------------------------------
(* Properties of the table, checked under Spec.                            *)

\* C10: every record's stored TotalHours and BreakDuration equal
\* calculate_times applied to the record's own time fields and its own Date,
\* after every operation that changes the table.  RestoreFromExcel appends
\* the uploaded rows with the totals they carry, so this is violated.
C10_DerivedTotals ==
    \A k \in 1..Len(df) :
        <<df[k].TotalHours, df[k].BreakDuration>> = calculate_times(df[k], df[k].Date)

\* One cell parses, the other parses, and the second is the earlier instant.
ParsesBefore(later, earlier, shift_date) ==
    /\ parse_time(later, shift_date) # None
    /\ parse_time(earlier, shift_date) # None
    /\ parse_time(later, shift_date)[1] < parse_time(earlier, shift_date)[1]

\* Cell `second` is set only if cell `first` is set and `second` does not
\* parse to an instant before `first`.
InOrder(row, first, second) ==
    notna(row[second]) =>
        /\ notna(row[first])
        /\ ~ParsesBefore(row[second], row[first], row.Date)

\* C11: in every record, whatever operations led to it, BreakiEnd is set only
\* if BreakiStart is set and does not parse before it, and Break(i+1)Start is
\* set only if BreakiEnd is set and does not parse before it.  The edit form,
\* the data editor and the restore write any cells, and the portal stamps a
\* morning start and an afternoon end a day apart, so this is violated.
C11_BreakOrder ==
    \A k \in 1..Len(df), i \in 1..NumBreaks :
        /\ InOrder(df[k], start_col(i), end_col(i))
        /\ i < NumBreaks => InOrder(df[k], end_col(i), start_col(i + 1))

-----------------------------------------------------------------------------
(* Properties of the user portal.                                          *)

\* A step of one of the buttons of MISSION CONTROL.
PortalStamp ==
    \/ CheckIn
    \/ \E i \in 1..NumBreaks : BreakStart(i)
    \/ \E i \in 1..NumBreaks : BreakEnd(i)
    \/ CheckOut

\* C12: once a record's CheckOut is set, no check-in, break start, break end
\* or check-out changes any field of that record.  BREAK i START does not
\* look at CheckOut, so this is violated.
C12_CheckedOutTerminal ==
    [][PortalStamp =>
        \A k \in 1..Len(df) : notna(df[k].CheckOut) => df'[k] = df[k]]_vars

\* C13: in every record reached through the user portal, CheckOut set
\* implies that every break whose start is set has its end set.  A break
\* started after the check-out stays open, so this is violated.
C13_NoOpenBreakAfterCheckOut ==
    \A k \in 1..Len(df) :
        notna(df[k].CheckOut) =>
            \A i \in 1..NumBreaks :
                notna(df[k][start_col(i)]) => notna(df[k][end_col(i)])

\* C14: in every record reached through the user portal, (a) a break field
\* or CheckOut set implies CheckIn set, (b) BreakiEnd set implies BreakiStart
\* set, (c) Break(i+1)Start set implies BreakiEnd set.
C14_SequentialFields ==
    \A k \in 1..Len(df) :
        /\ (\E col \in TimeCols \ {"CheckIn"} : notna(df[k][col])) => notna(df[k].CheckIn)
        /\ \A i \in 1..NumBreaks : notna(df[k][end_col(i)]) => notna(df[k][start_col(i)])
        /\ \A i \in 1..(NumBreaks - 1) :
              notna(df[k][start_col(i + 1)]) => notna(df[k][end_col(i)])

\* A record whose second break has started after a complete first break.
C14_Witness ==
    \E k \in 1..Len(df) :
        /\ notna(df[k].CheckIn)
        /\ notna(df[k].Break1Start) /\ notna(df[k].Break1End)
        /\ notna(df[k].Break2Start)

\* C15: starting a new session appends exactly one record, of the selected
\* user, with the current shift date, the eight time fields empty, Active
\* true and both totals 0, and leaves every record that existed unchanged.
C15_NewSessionFrame ==
    [][NewSession =>
        /\ Len(df') = Len(df) + 1
        /\ \A k \in 1..Len(df) : df'[k] = df[k]
        /\ df'[Len(df')].User = selected_user[1]
        /\ df'[Len(df')].Date = get_shift_date(now)
        /\ \A col \in TimeCols : isna(df'[Len(df')][col])
        /\ df'[Len(df')].Active = TRUE
        /\ df'[Len(df')].TotalHours = 0
        /\ df'[Len(df')].BreakDuration = 0]_vars

\* A user's checked-out record of day 1 is followed by the same user's new,
\* empty record of day 2 (only a new session adds a second record of a user
\* when none is inactive).
C15_Witness ==
    /\ Len(df) = 2
    /\ df[1].User = df[2].User
    /\ df[1].Date = 1 /\ notna(df[1].CheckIn) /\ notna(df[1].CheckOut)
    /\ df[2].Date = 2 /\ \A col \in TimeCols : isna(df[2][col])
    /\ \A k \in 1..2 : df[k].Active

\* C21: in every record written by user-portal actions (the clock never
\* goes back) the stored TotalHours and BreakDuration are >= 0.  A morning
\* stamp is read back a day late, so an afternoon stamp after it gives a
\* negative difference and this is violated.
C21_NonNegativeTotals ==
    \A k \in 1..Len(df) : df[k].TotalHours >= 0 /\ df[k].BreakDuration >= 0

\* C22: user-portal actions never overwrite or clear a recorded time: a time
\* field that is set has the same value after every step of the portal.
C22_StampsKept ==
    [][\A k \in 1..Len(df), col \in TimeCols :
          notna(df[k][col]) => Len(df') >= k /\ df'[k][col] = df[k][col]]_vars

\* A record checked in at 18:30 of day 1 and checked out at a later reading
\* of the clock still holds its check-in.
C22_Witness ==
    \E k \in 1..Len(df) :
        /\ df[k].CheckIn = format_time(StartInstant)
        /\ notna(df[k].CheckOut)
        /\ df[k].CheckOut # df[k].CheckIn

\* C23: a check-in, break start, break end or check-out of user U at `now`
\* changes at most one record, the last record of U whose Date is
\* get_shift_date(now); no record is added or removed.
C23_StampFrame ==
    [][PortalStamp =>
        /\ Len(df') = Len(df)
        /\ \A k \in 1..Len(df) :
              df'[k] # df[k] =>
                  /\ df[k].User = selected_user[1]
                  /\ df[k].Date = get_shift_date(now)
                  /\ \A j \in (k + 1)..Len(df) :
                        ~(df[j].User = df[k].User /\ df[j].Date = df[k].Date)]_vars

\* Two records of one user and one date: the earlier one is still empty and
\* the later one is checked in.
C23_Witness ==
    /\ Len(df) = 2
    /\ df[1].User = df[2].User /\ df[1].Date = df[2].Date
    /\ \A col \in TimeCols : isna(df[1][col])
    /\ notna(df[2].CheckIn)

\* A record with CheckIn set and CheckOut empty.
OpenSession(row) == notna(row.CheckIn) /\ isna(row.CheckOut)

\* C24: for each user and each Date at most one record has CheckIn set and
\* CheckOut empty.  INITIATE NEW SESSION does not look at the records of the
\* day, so a second session is opened beside an open one and this is
\* violated.
C24_OneOpenSession ==
    \A k \in 1..Len(df), j \in 1..Len(df) :
        (/\ OpenSession(df[k]) /\ OpenSession(df[j])
         /\ df[k].User = df[j].User /\ df[k].Date = df[j].Date) => k = j

\* The check-out button of the record's user acts on record k: the user
\* passes the access check and k is the user's last record of the current
\* shift date.
CheckOutActsOn(k) ==
    /\ user_active(df[k].User)
    /\ user_rows(df[k].User, get_shift_date(now)) # {}
    /\ k = SetMax(user_rows(df[k].User, get_shift_date(now)))

\* C25: for every record with CheckIn set, CheckOut empty and no open
\* break, the check-out of the record's user is enabled and acts on that
\* record, whatever the clock reads and whatever other records exist.  After
\* the 04:00 cutover the record is no longer a record of the current shift
\* date, so this is violated.
C25_CanAlwaysCheckOut ==
    \A k \in 1..Len(df) :
        (/\ OpenSession(df[k])
         /\ \A i \in 1..NumBreaks :
               notna(df[k][start_col(i)]) => notna(df[k][end_col(i)]))
        => CheckOutActsOn(k)

-----------------------------------------------------------------------------
(* Properties of the admin operations, checked under Spec.                 *)

FormValues == FormTexts \cup {format_time(t) : t \in ClockInstants}
ValidTimes == {s \in FormValues : Admitted(s)}

\* The form holds a non-empty field that is not a time "HH:MM AM/PM".
FormRejected(form) ==
    \E col \in TimeCols : form[col] # EmptyString /\ form[col] \notin ValidTimes

\* C26: the submit of the edit form is all-or-nothing: if a non-empty field
\* of the form is not a valid time, no field of any record changes; if all
\* are valid, the eight time fields and Active of the record are replaced by
\* the form's values, an empty input becoming an empty field, and no other
\* record changes.
C26_EditAllOrNothing ==
    [][\A k \in 1..Len(df), field \in EditFields, text \in FormTexts, active \in BOOLEAN :
          (admin_ops' = admin_ops + 1 /\ SubmitEdit(k, field, text, active)) =>
              IF FormRejected(FormOf(df[k], field, text))
              THEN df' = df
              ELSE /\ Len(df') = Len(df)
                   /\ \A col \in TimeCols :
                         df'[k][col] = IF FormOf(df[k], field, text)[col] = EmptyString
                                       THEN NA
                                       ELSE FormOf(df[k], field, text)[col]
                   /\ df'[k].Active = active
                   /\ \A j \in 1..Len(df) : j # k => df'[j] = df[j]]_vars

\* After the one admin submission a record holds the typed check-out
\* "5:00 PM" and is inactive: the edit form wrote a time field and Active
\* together.
C26_Witness ==
    /\ admin_ops = 1
    /\ \E k \in 1..Len(df) :
          /\ df[k].CheckOut = T500PM
          /\ notna(df[k].CheckIn)
          /\ ~df[k].Active

RecordsOf(table, user) == Cardinality(IndicesOf(table, user))

\* C17: across every operation other than "Delete User and Data" the number
\* of records of each user never decreases.  The restore drops the
\* duplicates on (User, Date, CheckIn) of the whole table, so this is
\* violated.
C17_RemovedOnlyByHardDelete ==
    [][HardDelete \/ \A u \in Users : RecordsOf(df', u) >= RecordsOf(df, u)]_vars

\* C18: for a selected user with no active record no user-portal action
\* (new session, check-in, break start or end, check-out) changes the
\* table.  A user with no record at all passes the access check, so this is
\* violated.
C18_NotEnrolledNoChange ==
    [][(/\ selected_user # None
        /\ ~(\E k \in IndicesOf(df, selected_user[1]) : df[k].Active)
        /\ (NewSession \/ PortalStamp))
       => df' = df]_vars

-----------------------------------------------------------------------------
(* Further properties of the engine, checked under SpecEngine.             *)

\* A time cell that is present and does not parse.
Malformed(v, shift_date) == notna(v) /\ parse_time(v, shift_date) = None

\* The row with every malformed time cell emptied.
Emptied(row, shift_date) ==
    [col \in DOMAIN row |->
        IF col \in TimeCols /\ Malformed(row[col], shift_date) THEN NA ELSE row[col]]

\* C19: replacing any malformed time field of a record by an empty field
\* gives the same (total hours, break hours): one field at a time, and all
\* of them at once.
C19_MalformedAsAbsent ==
    IsCall("calculate_times") =>
        LET row == call.arg[1]
            d == call.arg[2]
        IN  /\ \A col \in TimeCols :
                  Malformed(row[col], d) =>
                      calculate_times([row EXCEPT ![col] = NA], d) = call.out
            /\ calculate_times(Emptied(row, d), d) = call.out

\* calculate_times was applied to a record with a malformed CheckIn beside a
\* CheckOut that parses, and a malformed Break1End beside a start that parses.
C19_Witness ==
    /\ IsCall("calculate_times")
    /\ call.arg[1].CheckIn = Banana /\ call.arg[1].CheckOut = T600PM
    /\ call.arg[1].Break1Start = T600PM /\ call.arg[1].Break1End = Banana
    /\ call.arg[1].Break2Start = T800PM /\ call.arg[1].Break2End = T830PM
    /\ call.out = <<0, 30>>

\* C20: a stamp written at `now` is read back as `now`:
\* parse_time(format_time(now), get_shift_date(now)) = now for every hour of
\* the day.  A stamp of the morning after the cutover is tagged AM and read
\* back a day late, so this is violated.
C20_StampReadBack ==
    IsCall("stamp_read_back") => call.out = Some(call.arg[1])

\* The strings format_time produces.
FormatTimeStrings == {format_time(MakeInstant(1, h, m)) : h \in 0..23, m \in 0..59}

Abs(x) == IF x < 0 THEN -x ELSE x

\* C27: for every shift date D and every string of format_time, parse_time
\* gives an instant from 12:00 of D up to, not including, 12:00 of D+1; and
\* for every record the absolute value of the total hours and of each break
\* slot's part is strictly less than 24 hours.  A time with a lower-case
\* "am", which strptime and the edit form accept, is not moved to D+1: a
\* break from "1:30 am" to "1:30 AM" counts 24 hours, so this is violated.
C27_BoundedWindow ==
    /\ (IsCall("parse_time") /\ call.arg[1] \in FormatTimeStrings) =>
          /\ call.out # None
          /\ MakeInstant(call.arg[2], 12, 0) <= call.out[1]
          /\ call.out[1] < MakeInstant(call.arg[2] + 1, 12, 0)
    /\ IsCall("calculate_times") =>
          /\ Abs(call.out[1]) < 24 * 60
          /\ \A i \in 1..NumBreaks :
                Abs(Elapsed(call.arg[1][start_col(i)], call.arg[1][end_col(i)],
                            call.arg[2])) < 24 * 60

-----------------------------------------------------------------------------
(* Properties of the runs against the sheet, checked under SpecSheet.      *)

\* The sheet holds a record of `user` with a check-in.
SheetHasCheckIn(user) ==
    \E k \in 1..Len(sheet) :
        /\ ~IsHeader(sheet[k])
        /\ sheet[k].User = user
        /\ notna(sheet[k].CheckIn)

\* C28: when two runs have each loaded the table, checked in a different
\* user's record and saved, the sheet holds both check-ins, however their
\* load and save steps interleave.  A run that loaded before the other saved
\* writes back the other's record as it loaded it, so this is violated.
C28_NoLostUpdate ==
    ( /\ \A r \in Runs : runs[r].pc = "done"
      /\ runs[1].user # runs[2].user )
    => \A r \in Runs : SheetHasCheckIn(runs[r].user[1])

\* C29: when a sheet call of save_data fails, the sheet holds either all it
\* held before or all of the new table.  Stated for a failed save of one run
\* while the other run has written nothing, so that the sheet before is the
\* sheet at the start.  A failure after SHEET.clear() leaves the sheet empty
\* or with its header only, so this is violated.
C29_SaveAtomic ==
    \A r \in Runs :
        ( /\ runs[r].pc = "failed"
          /\ \A q \in Runs \ {r} : runs[q].pc \in {"idle", "loaded"} )
        => \/ sheet = InitSheetRows
           \/ sheet = <<HeaderRow>> \o save_data(runs[r].df)

=============================================================================
